---- MODULE Spec2Model ----
(***************************************************************************)
(* valibot-fast-check: the builder (_VFC) with its override registry, the  *)
(* dispatcher inputWithPath and the strategy table arbitraryBuilder, the   *)
(* number strategy, and the success-rate guard of the fallback filter.     *)
(*                                                                         *)
(* Generators (fast-check arbitraries) are symbolic terms: records with a  *)
(* field "kind".  A thrown error is the term of kind "throw".  JavaScript  *)
(* strings that the code builds by concatenation (diagnostic paths, error  *)
(* messages) are sequences of tokens, concatenated with \o; a name (field  *)
(* name, type tag) is one token, "." is one token.                         *)
(***************************************************************************)
EXTENDS Integers, Sequences, FiniteSets, TLC

VARIABLES
    builders,    \* the _VFC instances created so far: a sequence of registries
    built,       \* the last inputOf call: builder, schema and what it returned
    pipe,        \* pipeline of the number schema under test (SpecNumber)
    sample,      \* the last value drawn from the built number generator
    total,       \* guardPredicate closure: `total`
    successful,  \* guardPredicate closure: `successful`
    outcome,     \* what the last evaluation of the guard did
    guardPath,   \* guardPredicate closure: captured `path`
    pending,     \* inputWithPath: the schemas still to dispatch, innermost first
    dispatches,  \* how many times inputWithPath was entered by the current call
    monitors,    \* the closure state of each guard of one generator tree
    evaluated    \* how often each of these guards was evaluated, and passed

vars == <<builders, built, pipe, sample, total, successful, outcome, guardPath,
          pending, dispatches, monitors, evaluated>>

\* no inputOf call is in progress
NotDispatching == pending = <<>> /\ dispatches = 0

\* no generator with several guards is being sampled
NoGuards == monitors = <<>> /\ evaluated = <<>>

----------------------------------------------------------------------------
(* Bounds of the model *)

\* how many builder instances a behaviour creates (vfc() plus override calls)
MaxBuilders == 3

\* how many validations the pipeline of the number schema under test holds
MaxPipeLen == 2

\* finite sample values are drawn from -ValueWindow..ValueWindow
ValueWindow == 24

\* how long the strings are that fc.string draws
MaxStrLen == 2

----------------------------------------------------------------------------
(* Schemas.  A schema object has an identity (its index in SchemaTable)    *)
(* and a structure (the record).  `sub` lists the sub-schemas by label:    *)
(* an object's entries, an array's item, a tuple's items, a union's        *)
(* options, a map's key and value, a set's value, a wrapper's wrapped.     *)

(* `hasPipe` is `"pipe" in schema`; `pipe` is the pipeline v.pipe() stores. *)

Leaf(type) ==
    [type |-> type, kind |-> "schema", sub |-> <<>>, hasPipe |-> FALSE, pipe |-> <<>>]

Node(type, sub) ==
    [type |-> type, kind |-> "schema", sub |-> sub, hasPipe |-> FALSE, pipe |-> <<>>]

\* a hand-made object that is no valibot schema: { type: "custom_unsupported", ... }
Foreign(type) ==
    [type |-> type, kind |-> "none", sub |-> <<>>, hasPipe |-> FALSE, pipe |-> <<>>]

SchemaTable ==
    <<  Leaf("string"),                                   \*  1  stringSchema
        Leaf("string"),                                   \*  2  another v.string()
        Leaf("number"),                                   \*  3
        Leaf("any"),                                      \*  4
        Foreign("custom_unsupported"),                    \*  5
        Node("object", << <<"unsupported", 5>> >>),       \*  6
        Node("object", << <<"nested", 6>> >>),            \*  7
        Node("object", << <<"id", 2>>, <<"data", 4>> >>), \*  8  README example
        Node("object", << <<"name", 1>>, <<"age", 3>> >>),\*  9
        Node("array",  << <<"item", 1>> >>),              \* 10
        Node("tuple",  << <<"0", 3>>, <<"1", 1>> >>),     \* 11
        Node("union",  << <<"0", 3>>, <<"1", 1>> >>),     \* 12
        Node("map",    << <<"key", 1>>, <<"value", 5>> >>),\* 13
        Node("set",    << <<"value", 1>> >>),             \* 14
        Node("optional", << <<"wrapped", 1>> >>),         \* 15
        Node("nullish", << <<"wrapped", 10>> >>),         \* 16
        Node("object", << <<"custom_unsupported", 5>> >>),\* 17
        Node("nullable", << <<"wrapped", 13>> >>),        \* 18
        Leaf("bigint"),                                   \* 19
        Leaf("date"),                                     \* 20
        Node("map",    << <<"key", 1>>, <<"value", 3>> >>),\* 21
        Node("nullable", << <<"wrapped", 21>> >>),        \* 22
        Node("tuple",  << <<"0", 3>>, <<"1", 3>> >>)      \* 23
    >>

SchemaIds == 1..Len(SchemaTable)

\* the number schema whose pipeline a behaviour chooses: v.pipe(v.number(), ...)
NumberUnderTest == CHOOSE s \in SchemaIds : SchemaTable[s].type = "number"

\* the first schema of the table with the given type tag
UnderTest(type) ==
    CHOOSE s \in SchemaIds :
        /\ SchemaTable[s].type = type
        /\ \A r \in 1..(s - 1) : SchemaTable[r].type # type

\* the schema object with identity s; the pipeline a behaviour chooses belongs
\* to the schema its first item names: v.pipe(v.bigint(), ...)
Schema(s) ==
    IF pipe # <<>> /\ s = UnderTest(pipe[1].type)
    THEN [SchemaTable[s] EXCEPT !.hasPipe = TRUE, !.pipe = pipe]
    ELSE SchemaTable[s]

\* the schemas a behaviour registers overrides for
OverrideTargets == {1, 2, 5}

\* the generators a caller hands to override()
UserArbitraries ==
    { [kind |-> "user", name |-> "fc.uuid()"],
      [kind |-> "user", name |-> "fc.constant(OVERRIDE)"] }

\* Map.get on a missing key: undefined
Undefined == [kind |-> "undefined"]

EmptyRegistry == [s \in SchemaIds |-> Undefined]

----------------------------------------------------------------------------
(* helpers.ts *)

unsupportedSchemaError(schemaTypeName) ==
    [kind |-> "throw", class |-> "VFCUnsupportedSchemaError",
     message |-> <<"Unable to generate valid values for Valibot schema", ".",
                   schemaTypeName, " schemas are not supported", ".">>]

\* the keys of the arbitraryBuilder object literal
ArbitraryBuilderKeys ==
    {"string", "number", "bigint", "boolean", "object", "array", "date",
     "undefined", "null", "nan", "any", "void", "optional", "nullable",
     "nullish", "enum", "function", "literal", "map", "set", "symbol",
     "tuple", "union", "unknown"}

isSupportedSchemaType(schema) ==
    /\ schema.type # ""
    /\ schema.kind = "schema"
    /\ schema.type \in ArbitraryBuilderKeys

\* const MIN_RUNS = 1000
MIN_RUNS == 1000

\* const MIN_SUCCESS_RATE = 0.01, kept as the fraction 1/100
MIN_SUCCESS_RATE == [num |-> 1, den |-> 100]

(* successful / total < successRate.  The code divides and compares        *)
(* doubles; for total below 10^6 a quotient that differs from 1/100        *)
(* differs from it by at least 10^-8, far more than a rounding error, and  *)
(* a quotient equal to 1/100 rounds to the double the literal 0.01 denotes:*)
(* the comparison of doubles decides as the comparison of fractions does.  *)
RateBelow(succ, tot, successRate) == succ * successRate.den < tot * successRate.num

\* the message of the VFCGenerationError: `path || "."` between the quotes
GenerationErrorMessage(path) ==
    <<"Unable to generate valid values for the passed Valibot schema", ".",
      " Please provide an override for the schema at path ", "'">>
    \o (IF path = <<>> THEN <<".">> ELSE path) \o <<"'", ".">>

\* a guard that judges from the first evaluation on
guardThrowsNoWarmUp(tot, succ, successRate) == RateBelow(succ, tot, successRate)

\* a guard that compares with <= instead of <
guardThrowsAtRate(tot, succ, successRate) ==
    tot > MIN_RUNS /\ succ * successRate.den <= tot * successRate.num

\* a guard that never judges
guardThrowsNever(tot, succ, successRate) == FALSE

\* the condition of the `if` in the closure guardPredicate returns, read
\* after `total` and `successful` were updated
guardThrows(tot, succ, successRate) ==
    tot > MIN_RUNS /\ RateBelow(succ, tot, successRate)

\* a closure that accepts every value the predicate accepts
guardPredicateAcceptsPassing(successRate, path, tot, succ, isSuccess) ==
    LET tot1  == tot + 1
        succ1 == IF isSuccess THEN succ + 1 ELSE succ
    IN [total |-> tot1, successful |-> succ1,
        outcome |-> IF ~isSuccess /\ guardThrows(tot1, succ1, successRate)
                    THEN [kind |-> "throw", class |-> "VFCGenerationError",
                          message |-> GenerationErrorMessage(path),
                          isSuccess |-> isSuccess]
                    ELSE [kind |-> "return", value |-> isSuccess,
                          isSuccess |-> isSuccess]]

\* one call of the closure on a value for which predicate(value) = isSuccess:
\* the counters afterwards and what the call does
guardPredicate(successRate, path, tot, succ, isSuccess) ==
    LET tot1  == tot + 1
        succ1 == IF isSuccess THEN succ + 1 ELSE succ
    IN [total |-> tot1, successful |-> succ1,
        outcome |-> IF guardThrows(tot1, succ1, successRate)
                    THEN [kind |-> "throw", class |-> "VFCGenerationError",
                          message |-> GenerationErrorMessage(path),
                          isSuccess |-> isSuccess]
                    ELSE [kind |-> "return", value |-> isSuccess,
                          isSuccess |-> isSuccess]]

----------------------------------------------------------------------------
(* fast-check combinators, as terms.  A combinator whose argument list     *)
(* holds a thrown error never runs: the error thrown while the arguments   *)
(* were being built (in order) propagates.                                 *)

IsThrow(x) == x.kind = "throw"

\* the first thrown error among results, in evaluation order
FirstThrow(results) ==
    results[CHOOSE i \in 1..Len(results) :
                /\ IsThrow(results[i])
                /\ \A j \in 1..(i - 1) : ~IsThrow(results[j])]

AnyThrow(results) == \E i \in 1..Len(results) : IsThrow(results[i])

\* a combinator `kind` over the sub-generators `results`
Compose(kind, labels, results) ==
    IF AnyThrow(results) THEN FirstThrow(results)
    ELSE [kind |-> kind, labels |-> labels, of |-> results]

----------------------------------------------------------------------------
(* index.ts: _VFC *)

\* a lookup that matches by structure instead of identity
findOverrideByStructure(overrides, s) ==
    IF \E k \in SchemaIds : Schema(k) = Schema(s) /\ overrides[k].kind # "undefined"
    THEN overrides[CHOOSE k \in SchemaIds :
                       Schema(k) = Schema(s) /\ overrides[k].kind # "undefined"]
    ELSE overrides[s]

\* findOverride: this.overrides.get(schema); a Map compares its keys by
\* identity.  A function-valued entry is called with the builder; that call
\* is followed step by step in the dispatch specification (Callees)
findOverride(overrides, s) == overrides[s]

\* an Arbitrary object is truthy; undefined is not
Truthy(x) == x.kind # "undefined"

RECURSIVE inputWithPath(_, _, _)
RECURSIVE arbitraryBuilder(_, _, _)

\* a loop that runs over every item of the pipe
ValidationsUnfiltered(pipes) == pipes

\* pipes.filter((pipe) => pipe.kind === "validation")
RECURSIVE Validations(_)
Validations(pipes) ==
    IF pipes = <<>> THEN <<>>
    ELSE IF Head(pipes).kind = "validation"
         THEN <<Head(pipes)>> \o Validations(Tail(pipes))
         ELSE Validations(Tail(pipes))

\* helpers.ts filterBySchema: arbitrary.filter(guardPredicate(MIN_SUCCESS_RATE, safeParse, path))
filterBySchema(arbitrary, schema, path) ==
    [kind |-> "filter", of |-> <<arbitrary>>, schema |-> schema, path |-> path]

\* builder/string.ts.  A string is a sequence of characters; a validation
\* with a string requirement (starts_with, ends_with, includes) holds it as
\* the one element of `list`.

\* fc.string({minLength, maxLength}); the length is drawn by fc.integer, which
\* rejects min > max
FcString(minLength, maxLength) ==
    IF minLength > maxLength
    THEN [kind |-> "throw", class |-> "Error",
          message |-> <<"fc.integer maximum value should be equal or greater than the minimum one">>]
    ELSE [kind |-> "fc.string", minLength |-> minLength, maxLength |-> maxLength]

\* one iteration of the switch over validation.type
StringStep(acc, validation) ==
    CASE validation.type = "min_length" ->
           [acc EXCEPT !.minLength = IF @ >= validation.requirement
                                     THEN @ ELSE validation.requirement]
      [] validation.type = "max_length" ->
           [acc EXCEPT !.hasMax = TRUE,
                       !.maxLength = IF acc.hasMax /\ @ <= validation.requirement
                                     THEN @ ELSE validation.requirement]
      [] validation.type = "length" ->
           [acc EXCEPT !.minLength = validation.requirement,
                       !.hasMax = TRUE, !.maxLength = validation.requirement]
      [] validation.type \in {"starts_with", "ends_with", "includes", "trim"} ->
           [acc EXCEPT !.mappings = Append(@, validation)]
      [] validation.type = "uuid" ->
           [acc EXCEPT !.returned = TRUE, !.result = [kind |-> "fc.uuid"]]
      [] validation.type = "email" ->
           [acc EXCEPT !.returned = TRUE, !.result = [kind |-> "fc.emailAddress"]]
      [] validation.type = "url" ->
           [acc EXCEPT !.returned = TRUE, !.result = [kind |-> "fc.webUrl"]]
      [] validation.type = "non_empty" ->
           [acc EXCEPT !.minLength = IF @ >= 1 THEN @ ELSE 1]
      [] OTHER -> [acc EXCEPT !.hasUnsupportedFormat = TRUE]

RECURSIVE StringFold(_, _)
StringFold(acc, pipes) ==
    IF pipes = <<>> \/ acc.returned THEN acc
    ELSE StringFold(StringStep(acc, Head(pipes)), Tail(pipes))

\* maxLength is null until hasMax
StringSeed ==
    [minLength |-> 0, hasMax |-> FALSE, maxLength |-> 0, mappings |-> <<>>,
     hasUnsupportedFormat |-> FALSE, returned |-> FALSE, result |-> [kind |-> "fc.uuid"]]

\* if (maxLength === null) maxLength = 2 * minLength + 10
StringMaxLength(acc) == IF acc.hasMax THEN acc.maxLength ELSE 2 * acc.minLength + 10

\* for (const mapping of mappings) arbitrary = arbitrary.map(mapping)
RECURSIVE MapAll(_, _)
MapAll(arbitrary, mappings) ==
    IF mappings = <<>> THEN arbitrary
    ELSE MapAll([kind |-> "map", of |-> <<arbitrary>>, mapping |-> Head(mappings)],
                Tail(mappings))

buildStringArbitrary(schema, path) ==
    IF ~schema.hasPipe THEN [kind |-> "fc.string"]
    ELSE LET acc == StringFold(StringSeed, Validations(schema.pipe))
             base == FcString(acc.minLength, StringMaxLength(acc))
             arbitrary == MapAll(base, acc.mappings)
         IN IF acc.returned THEN acc.result
            ELSE IF IsThrow(base) THEN base
            ELSE IF acc.hasUnsupportedFormat
                 THEN filterBySchema(arbitrary, schema, path)
                 ELSE arbitrary

----------------------------------------------------------------------------
(* builder/number.ts.  A JavaScript number of the model is an integer or a  *)
(* half-integer, held as the count of its halves: the number 1 is `One`,   *)
(* 2.5 is 5.  Infinity and -Infinity are the two values beyond every       *)
(* finite one.  TLC's integers are 32 bits wide, so MAX_SAFE_INTEGER       *)
(* (2^53 - 1) is scaled down; every requirement and every sampled finite   *)
(* value of the model lies strictly inside the safe range, as it would     *)
(* with the real limit.                                                    *)

\* the number 1, in halves
One == 2

\* the number 0.5
Half == One \div 2

\* the integer x as a number of the model
Num(x) == x * One

\* Number.isInteger(x) for a finite x
IsInteger(x) == x % One = 0

MAX_SAFE_INTEGER == 9007199

MIN_SAFE_INTEGER == -MAX_SAFE_INTEGER

Infinity == 1000000000

\* r + Number.EPSILON and r - Number.EPSILON in double arithmetic, for a
\* half-integer r with 2 < |r| < 2^52 (the non-integer requirements of the
\* model): EPSILON = 2^-52 is at most half an ulp of r and the last mantissa
\* bit of r is 0, so the sum rounds to r itself (2.5 + Number.EPSILON === 2.5)
PlusEpsilon(r) == r

MinusEpsilon(r) == r

\* a generator that keeps only the first of the values it was given
fcConstantFromFirst(values) == [kind |-> "fc.constantFrom", values |-> <<Head(values)>>]

\* fc.constantFrom(...values)
fcConstantFrom(values) == [kind |-> "fc.constantFrom", values |-> values]

Max(a, b) == IF a >= b THEN a ELSE b

Min(a, b) == IF a <= b THEN a ELSE b

\* a rounding that goes down where the code rounds up
CeilDivRoundingDown(a, b) == IF b > 0 THEN a \div b ELSE (-a) \div (-b)

\* Math.ceil(a / b) and Math.floor(a / b) for b # 0
CeilDiv(a, b) == IF b > 0 THEN -((-a) \div b) ELSE -(a \div (-b))

FloorDiv(a, b) == IF b > 0 THEN a \div b ELSE (-a) \div (-b)

\* fc.integer({min, max}).map(value => value * factor); fc.integer rejects min > max
FcIntegerTimes(min, max, factor) ==
    IF min > max
    THEN [kind |-> "throw", class |-> "Error",
          message |-> <<"fc.integer maximum value should be equal or greater than the minimum one">>]
    ELSE [kind |-> "fc.integer.map", min |-> min, max |-> max, factor |-> factor]

\* fc.double({min, max, noNaN: true}); fc.double rejects min > max
FcDouble(min, max) ==
    IF min > max
    THEN [kind |-> "throw", class |-> "Error",
          message |-> <<"fc.double constraints.min must be smaller or equal to constraints.max">>]
    ELSE [kind |-> "fc.double", min |-> min, max |-> max]

\* a multiple_of that replaces the factor found so far
TimesFactorOverwrite(multipleOf, requirement) == requirement

\* (multipleOf ?? 1) * pipe.requirement
TimesFactor(multipleOf, requirement) == (multipleOf * requirement) \div One

\* one iteration of the switch over pipe.type
NumberStep(acc, p) ==
    CASE p.type = "min_value" -> [acc EXCEPT !.minValue = Max(@, p.requirement)]
      [] p.type = "max_value" -> [acc EXCEPT !.maxValue = Min(@, p.requirement)]
      [] p.type = "integer" -> [acc EXCEPT !.hasMultipleOf = TRUE]
      [] p.type = "finite" -> [acc EXCEPT !.isFinite = TRUE]
      [] p.type = "multiple_of" ->
           [acc EXCEPT !.hasMultipleOf = TRUE,
                       !.multipleOf = TimesFactor(@, p.requirement)]
      [] p.type = "gt_value" ->
           [acc EXCEPT !.minValue =
               Max(@, IF IsInteger(p.requirement) THEN p.requirement + One
                      ELSE PlusEpsilon(p.requirement))]
      [] p.type = "lt_value" ->
           [acc EXCEPT !.maxValue =
               Min(@, IF IsInteger(p.requirement) THEN p.requirement - One
                      ELSE MinusEpsilon(p.requirement))]
      [] p.type = "safe_integer" ->
           [acc EXCEPT !.minValue = Max(@, Num(MIN_SAFE_INTEGER)),
                       !.maxValue = Min(@, Num(MAX_SAFE_INTEGER)),
                       !.hasMultipleOf = TRUE]
      [] p.type = "value" ->
           [acc EXCEPT !.returned = TRUE,
                       !.result = [kind |-> "fc.constant", values |-> <<p.requirement>>]]
      [] p.type = "values" ->
           [acc EXCEPT !.returned = TRUE,
                       !.result = fcConstantFrom(p.list)]
      [] OTHER -> [acc EXCEPT !.hasUnsupportedFormat = TRUE]

\* the for loop; a `return` inside it ends the loop
RECURSIVE NumberFold(_, _)
NumberFold(acc, pipes) ==
    IF pipes = <<>> \/ acc.returned THEN acc
    ELSE NumberFold(NumberStep(acc, Head(pipes)), Tail(pipes))

\* bounds that start without a limit
NumberSeedUnbounded ==
    [minValue |-> -Infinity, maxValue |-> Infinity,
     hasMultipleOf |-> FALSE, multipleOf |-> One, isFinite |-> FALSE,
     hasUnsupportedFormat |-> FALSE, returned |-> FALSE,
     result |-> [kind |-> "fc.constant", values |-> <<0>>]]

\* `multipleOf` is null until hasMultipleOf; (multipleOf ?? 1) is the field multipleOf
NumberSeed ==
    [minValue |-> Num(MIN_SAFE_INTEGER), maxValue |-> Num(MAX_SAFE_INTEGER),
     hasMultipleOf |-> FALSE, multipleOf |-> One, isFinite |-> FALSE,
     hasUnsupportedFormat |-> FALSE, returned |-> FALSE,
     result |-> [kind |-> "fc.constant", values |-> <<0>>]]

\* the generator built after the loop, before the guard wrap
NumberArbitrary(acc) ==
    IF acc.hasMultipleOf
    THEN FcIntegerTimes(CeilDiv(acc.minValue, acc.multipleOf),
                        FloorDiv(acc.maxValue, acc.multipleOf), acc.multipleOf)
    ELSE LET finiteArbitrary == FcDouble(acc.minValue, acc.maxValue)
             infinityOptions ==
                 (IF acc.maxValue >= Infinity
                  THEN <<[kind |-> "fc.constant", values |-> <<Infinity>>]>> ELSE <<>>)
                 \o (IF acc.minValue <= -Infinity
                     THEN <<[kind |-> "fc.constant", values |-> <<-Infinity>>]>> ELSE <<>>)
         IN IF IsThrow(finiteArbitrary) \/ acc.isFinite \/ infinityOptions = <<>>
            THEN finiteArbitrary
            ELSE [kind |-> "fc.oneof", of |-> <<finiteArbitrary>> \o infinityOptions]

buildNumberArbitrary(schema, path) ==
    IF ~schema.hasPipe THEN FcDouble(-Infinity, Infinity)
    ELSE LET acc == NumberFold(NumberSeed, Validations(schema.pipe))
             arbitrary == NumberArbitrary(acc)
         IN IF acc.returned THEN acc.result
            ELSE IF IsThrow(arbitrary) THEN arbitrary
            ELSE IF acc.hasUnsupportedFormat
                 THEN filterBySchema(arbitrary, schema, path)
                 ELSE arbitrary

\* builder/array.ts: the fold over the validations
RECURSIVE ArrayFold(_, _)
ArrayFold(acc, pipes) ==
    IF pipes = <<>> THEN acc
    ELSE LET p == Head(pipes)
             next ==
               CASE p.type = "min_length" ->
                      IF ~acc.hasMin \/ p.requirement > acc.minLength
                      THEN [acc EXCEPT !.hasMin = TRUE, !.minLength = p.requirement]
                      ELSE acc
                 [] p.type = "max_length" ->
                      IF ~acc.hasMax \/ p.requirement < acc.maxLength
                      THEN [acc EXCEPT !.hasMax = TRUE, !.maxLength = p.requirement]
                      ELSE acc
                 [] p.type = "size" ->
                      [acc EXCEPT !.hasMin = TRUE, !.minLength = p.requirement,
                                  !.hasMax = TRUE, !.maxLength = p.requirement]
                 [] OTHER -> [acc EXCEPT !.hasUnsupportedFormat = TRUE]
         IN ArrayFold(next, Tail(pipes))

\* `item` is recurse(arraySchema.item, path + "[*]")
buildArrayArbitrary(schema, path, item) ==
    IF ~schema.hasPipe
    THEN IF IsThrow(item) THEN item
         ELSE [kind |-> "fc.array", of |-> <<item>>, minLength |-> 0, maxLength |-> 10]
    ELSE LET acc == ArrayFold([hasMin |-> FALSE, minLength |-> 0,
                                  hasMax |-> FALSE, maxLength |-> 10,
                                  hasUnsupportedFormat |-> FALSE],
                                 Validations(schema.pipe))
                arbitrary == [kind |-> "fc.array", of |-> <<item>>,
                              minLength |-> IF acc.hasMin THEN acc.minLength ELSE 0,
                              maxLength |-> IF acc.hasMax THEN acc.maxLength ELSE 10]
            IN IF IsThrow(item) THEN item
               ELSE IF acc.hasUnsupportedFormat
                    THEN filterBySchema(arbitrary, schema, path)
                    ELSE arbitrary

\* builder/set.ts: the fold over the validations
RECURSIVE SetFold(_, _)
SetFold(acc, pipes) ==
    IF pipes = <<>> THEN acc
    ELSE LET p == Head(pipes)
             next ==
               CASE p.type = "min_size" ->
                      [acc EXCEPT !.minSize = IF p.requirement > @ THEN p.requirement ELSE @]
                 [] p.type = "max_size" ->
                      [acc EXCEPT !.maxSize = IF p.requirement < @ THEN p.requirement ELSE @]
                 [] p.type = "size" ->
                      [acc EXCEPT !.minSize = p.requirement, !.maxSize = p.requirement]
                 [] OTHER -> [acc EXCEPT !.hasUnsupportedFormat = TRUE]
         IN SetFold(next, Tail(pipes))

\* `value` is recurse(setSchema.value, path + ".(value)")
buildSetArbitrary(schema, path, value) ==
    LET acc == IF ~schema.hasPipe
               THEN [minSize |-> 0, maxSize |-> 10, hasUnsupportedFormat |-> FALSE]
               ELSE SetFold([minSize |-> 0, maxSize |-> 10, hasUnsupportedFormat |-> FALSE],
                            Validations(schema.pipe))
        arbitrary == [kind |-> "fc.uniqueArray.map(Set)", of |-> <<value>>,
                      minLength |-> acc.minSize, maxLength |-> acc.maxSize]
    IN IF IsThrow(value) THEN value
       ELSE IF acc.hasUnsupportedFormat
            THEN filterBySchema(arbitrary, schema, path)
            ELSE arbitrary

----------------------------------------------------------------------------
(* builder/bigint.ts and builder/date.ts.  A bigint is an integer; a date   *)
(* is its instant in milliseconds.  minValue and maxValue are null until    *)
(* hasMin / hasMax.  Every requirement of a bigint pipeline is a bigint, so *)
(* `typeof pipe.requirement === "bigint"` holds.                            *)

\* fc.bigInt(constraints) and fc.date(constraints); both reject min > max
FcRange(kind, acc) ==
    IF acc.hasMin /\ acc.hasMax /\ acc.minValue > acc.maxValue
    THEN [kind |-> "throw", class |-> "Error",
          message |-> <<kind, " expects min to be less than or equal to max">>]
    ELSE [kind |-> kind, hasMin |-> acc.hasMin, min |-> acc.minValue,
          hasMax |-> acc.hasMax, max |-> acc.maxValue]

RangeSeed ==
    [hasMin |-> FALSE, minValue |-> 0, hasMax |-> FALSE, maxValue |-> 0,
     hasUnsupportedFormat |-> FALSE, returned |-> FALSE,
     result |-> [kind |-> "fc.constant", values |-> <<0>>]]

\* one iteration of the switch of buildBigIntArbitrary
BigIntStep(acc, p) ==
    CASE p.type = "min_value" ->
           IF ~acc.hasMin \/ p.requirement > acc.minValue
           THEN [acc EXCEPT !.hasMin = TRUE, !.minValue = p.requirement] ELSE acc
      [] p.type = "max_value" ->
           IF ~acc.hasMax \/ p.requirement < acc.maxValue
           THEN [acc EXCEPT !.hasMax = TRUE, !.maxValue = p.requirement] ELSE acc
      [] p.type = "gt_value" ->
           IF ~acc.hasMin \/ p.requirement > acc.minValue
           THEN [acc EXCEPT !.hasMin = TRUE, !.minValue = p.requirement + 1] ELSE acc
      [] p.type = "lt_value" ->
           IF ~acc.hasMax \/ p.requirement < acc.maxValue
           THEN [acc EXCEPT !.hasMax = TRUE, !.maxValue = p.requirement - 1] ELSE acc
      [] p.type = "value" ->
           [acc EXCEPT !.returned = TRUE,
                       !.result = [kind |-> "fc.constant", values |-> <<p.requirement>>]]
      [] p.type = "values" ->
           [acc EXCEPT !.returned = TRUE, !.result = fcConstantFrom(p.list)]
      [] OTHER -> [acc EXCEPT !.hasUnsupportedFormat = TRUE]

RECURSIVE BigIntFold(_, _)
BigIntFold(acc, pipes) ==
    IF pipes = <<>> \/ acc.returned THEN acc
    ELSE BigIntFold(BigIntStep(acc, Head(pipes)), Tail(pipes))

buildBigIntArbitrary(schema, path) ==
    IF ~schema.hasPipe THEN FcRange("fc.bigInt", RangeSeed)
    ELSE LET acc == BigIntFold(RangeSeed, Validations(schema.pipe))
             arbitrary == FcRange("fc.bigInt", acc)
         IN IF acc.returned THEN acc.result
            ELSE IF IsThrow(arbitrary) THEN arbitrary
            ELSE IF acc.hasUnsupportedFormat
                 THEN filterBySchema(arbitrary, schema, path)
                 ELSE arbitrary

\* one iteration of the switch of buildDateArbitrary
DateStep(acc, p) ==
    CASE p.type = "min_value" ->
           IF ~acc.hasMin \/ p.requirement > acc.minValue
           THEN [acc EXCEPT !.hasMin = TRUE, !.minValue = p.requirement] ELSE acc
      [] p.type = "max_value" ->
           IF ~acc.hasMax \/ p.requirement < acc.maxValue
           THEN [acc EXCEPT !.hasMax = TRUE, !.maxValue = p.requirement] ELSE acc
      [] p.type = "gt_value" ->
           IF ~acc.hasMin \/ p.requirement > acc.minValue
           THEN [acc EXCEPT !.hasMin = TRUE, !.minValue = p.requirement] ELSE acc
      [] p.type = "lt_value" ->
           IF ~acc.hasMax \/ p.requirement < acc.maxValue
           THEN [acc EXCEPT !.hasMax = TRUE, !.maxValue = p.requirement] ELSE acc
      [] p.type = "value" ->
           [acc EXCEPT !.returned = TRUE,
                       !.result = [kind |-> "fc.constant", values |-> <<p.requirement>>]]
      [] p.type = "values" ->
           [acc EXCEPT !.returned = TRUE, !.result = fcConstantFrom(p.list)]
      [] OTHER -> [acc EXCEPT !.hasUnsupportedFormat = TRUE]

RECURSIVE DateFold(_, _)
DateFold(acc, pipes) ==
    IF pipes = <<>> \/ acc.returned THEN acc
    ELSE DateFold(DateStep(acc, Head(pipes)), Tail(pipes))

buildDateArbitrary(schema, path) ==
    IF ~schema.hasPipe THEN FcRange("fc.date", RangeSeed)
    ELSE LET acc == DateFold(RangeSeed, Validations(schema.pipe))
             arbitrary == FcRange("fc.date", acc)
         IN IF acc.returned THEN acc.result
            ELSE IF IsThrow(arbitrary) THEN arbitrary
            ELSE IF acc.hasUnsupportedFormat
                 THEN filterBySchema(arbitrary, schema, path)
                 ELSE arbitrary

\* a recursion that hands every sub-schema the path of its parent
SubPathUnchanged(schema, path, i) == path

\* the path each strategy hands to recurse() for sub-schema i of `schema`
SubPath(schema, path, i) ==
    CASE schema.type = "object" -> path \o <<".", schema.sub[i][1]>>
      [] schema.type = "tuple" -> path \o <<"[", ToString(i - 1), "]">>
      [] schema.type = "array" -> path \o <<"[*]">>
      [] schema.type = "set" -> path \o <<".", "(value)">>
      [] schema.type = "map" ->
           IF i = 1 THEN path \o <<".", "(key)">> ELSE path \o <<".", "(value)">>
      [] OTHER -> path

\* recurse over the sub-schemas of `schema`, left to right, each with its path
RecurseAll(overrides, schema, path) ==
    [i \in 1..Len(schema.sub) |->
        inputWithPath(overrides, schema.sub[i][2], SubPath(schema, path, i))]

Labels(schema) == [i \in 1..Len(schema.sub) |-> schema.sub[i][1]]

\* builder/index.ts: the strategy table, indexed by schema.type
arbitraryBuilder(overrides, s, path) ==
    LET schema == Schema(s)
        subs   == RecurseAll(overrides, schema, path)
    IN CASE schema.type = "object" -> Compose("fc.record", Labels(schema), subs)
         [] schema.type = "tuple" -> Compose("fc.tuple", Labels(schema), subs)
         [] schema.type = "union" -> Compose("fc.oneof", Labels(schema), subs)
         [] schema.type = "map" ->
              Compose("fc.array(fc.tuple).map(Map)", Labels(schema), subs)
         [] schema.type = "optional" ->
              Compose("fc.option(nil: undefined)", Labels(schema), subs)
         [] schema.type = "nullable" ->
              Compose("fc.option(nil: null)", Labels(schema), subs)
         [] schema.type = "nullish" ->
              Compose("fc.oneof(wrapped, null, undefined)", Labels(schema), subs)
         [] schema.type = "array" -> buildArrayArbitrary(schema, path, subs[1])
         [] schema.type = "set" -> buildSetArbitrary(schema, path, subs[1])
         [] schema.type = "string" -> buildStringArbitrary(schema, path)
         [] schema.type = "number" -> buildNumberArbitrary(schema, path)
         [] schema.type = "bigint" -> buildBigIntArbitrary(schema, path)
         [] schema.type = "date" -> buildDateArbitrary(schema, path)
         [] schema.type = "any" -> [kind |-> "fc.anything"]
         [] schema.type = "unknown" -> [kind |-> "fc.anything"]

\* a dispatcher that checks the type tag before it consults the registry
inputWithPathTypeFirst(overrides, s, path) ==
    IF ~isSupportedSchemaType(Schema(s)) THEN unsupportedSchemaError(Schema(s).type)
    ELSE IF Truthy(findOverride(overrides, s)) THEN findOverride(overrides, s)
    ELSE arbitraryBuilder(overrides, s, path)

inputWithPath(overrides, s, path) ==
    LET override == findOverride(overrides, s)
    IN IF Truthy(override) THEN override
       ELSE IF isSupportedSchemaType(Schema(s))
            THEN arbitraryBuilder(overrides, s, path)
            ELSE unsupportedSchemaError(Schema(s).type)

inputOf(overrides, s) == inputWithPath(overrides, s, <<>>)

\* helpers.ts SCALAR_TYPES: the schema types whose outputs need no parse
SCALAR_TYPES == {"string", "number", "bigint", "boolean", "date"}

\* an outputOf that parses the samples of every schema
outputOfAlwaysParsed(overrides, s) ==
    LET inputArbitrary == inputOf(overrides, s)
    IN IF IsThrow(inputArbitrary) THEN inputArbitrary
       ELSE [kind |-> "parsed", of |-> <<inputArbitrary>>, schema |-> Schema(s),
             path |-> <<>>]

\* outputOf: the input generator itself for a scalar schema, and otherwise the
\* input generator mapped through safeParse, filtered by success and mapped
\* to the parsed output
outputOf(overrides, s) ==
    LET inputArbitrary == inputOf(overrides, s)
    IN IF IsThrow(inputArbitrary) THEN inputArbitrary
       ELSE IF isSupportedSchemaType(Schema(s)) /\ Schema(s).type \in SCALAR_TYPES
            THEN inputArbitrary
            ELSE [kind |-> "parsed", of |-> <<inputArbitrary>>, schema |-> Schema(s),
                  path |-> <<>>]

\* a clone that forgets the entries of the original
cloneFresh(overrides) == EmptyRegistry

\* clone(): a new _VFC whose registry holds a copy of every entry
clone(overrides) == [s \in SchemaIds |-> overrides[s]]

\* an override that registers the entry on the receiver itself and returns it
overrideInPlace(bs, b, schema, arbitrary) ==
    Append([bs EXCEPT ![b].overrides[schema] = arbitrary],
           [overrides |-> [bs[b].overrides EXCEPT ![schema] = arbitrary],
            history |-> Append(bs[b].history, <<schema, arbitrary>>)])

\* override(schema, arbitrary) called on builder b of bs: the builders afterwards,
\* the returned builder last.  `history` is the chain of override calls that
\* led to a builder (bookkeeping of the model, not read by the code).
override(bs, b, schema, arbitrary) ==
    Append(bs, [overrides |-> [clone(bs[b].overrides) EXCEPT ![schema] = arbitrary],
                history |-> Append(bs[b].history, <<schema, arbitrary>>)])

----------------------------------------------------------------------------
(* The builder specification: vfc(), then override and inputOf calls in    *)
(* any order on any builder created so far.                                *)

NotDrawn == [drawn |-> FALSE, value |-> 0]

NoCall == [op |-> "none", builder |-> 0, schema |-> 0, arg |-> Undefined,
           result |-> Undefined]

Init ==
    /\ builders = << [overrides |-> EmptyRegistry, history |-> <<>>] >>
    /\ built = NoCall
    /\ pipe = <<>>
    /\ sample = NotDrawn
    /\ total = 0
    /\ successful = 0
    /\ outcome = [kind |-> "none"]
    /\ NotDispatching /\ NoGuards
    /\ guardPath = <<>>

Override(b, s, a) ==
    /\ Len(builders) < MaxBuilders
    /\ builders' = override(builders, b, s, a)
    /\ built' = [op |-> "override", builder |-> b, schema |-> s, arg |-> a,
                 result |-> [kind |-> "builder", id |-> Len(builders) + 1]]
    /\ UNCHANGED <<pipe, sample, total, successful, outcome, guardPath,
                 pending, dispatches, monitors, evaluated>>

InputOf(b, s) ==
    /\ built' = [op |-> "inputOf", builder |-> b, schema |-> s, arg |-> Undefined,
                 result |-> inputOf(builders[b].overrides, s)]
    /\ UNCHANGED <<builders, pipe, sample, total, successful, outcome, guardPath,
                 pending, dispatches, monitors, evaluated>>

OutputOf(b, s) ==
    /\ built' = [op |-> "outputOf", builder |-> b, schema |-> s, arg |-> Undefined,
                 result |-> outputOf(builders[b].overrides, s)]
    /\ UNCHANGED <<builders, pipe, sample, total, successful, outcome, guardPath,
                 pending, dispatches, monitors, evaluated>>

Next ==
    \/ \E b \in 1..Len(builders), s \in OverrideTargets, a \in UserArbitraries :
          Override(b, s, a)
    \/ \E b \in 1..Len(builders), s \in SchemaIds : InputOf(b, s)

Spec == Init /\ [][Next]_vars

----------------------------------------------------------------------------
(* valibot's validator on a number schema.  Each action of the pipeline    *)
(* is checked on the value; the transformation of the model ("readonly")   *)
(* leaves the value as it is; check(requirement) stands for                *)
(* v.check((x) => x % requirement === 0).                                  *)

IsFiniteNumber(v) == v # Infinity /\ v # -Infinity

ActionAccepts(p, v) ==
    CASE p.kind # "validation" -> TRUE
      [] p.type = "min_value" -> v >= p.requirement
      [] p.type = "max_value" -> v <= p.requirement
      [] p.type = "gt_value" -> v > p.requirement
      [] p.type = "lt_value" -> v < p.requirement
      [] p.type = "integer" -> IsFiniteNumber(v) /\ IsInteger(v)
      [] p.type = "finite" -> IsFiniteNumber(v)
      [] p.type = "safe_integer" ->
           /\ IsFiniteNumber(v) /\ IsInteger(v)
           /\ v >= Num(MIN_SAFE_INTEGER) /\ v <= Num(MAX_SAFE_INTEGER)
      [] p.type = "multiple_of" -> IsFiniteNumber(v) /\ v % p.requirement = 0
      [] p.type = "value" -> v = p.requirement
      [] p.type = "values" -> \E i \in 1..Len(p.list) : p.list[i] = v
      [] p.type = "check" -> IsFiniteNumber(v) /\ v % p.requirement = 0

\* safeParse(schema, value).success for a number schema and a number value
safeParse(schema, v) ==
    \A i \in 1..Len(schema.pipe) : ActionAccepts(schema.pipe[i], v)

\* the values a number generator can produce
RECURSIVE CanProduce(_, _)
CanProduce(arb, v) ==
    CASE arb.kind \in {"fc.constant", "fc.constantFrom"} ->
           \E i \in 1..Len(arb.values) : arb.values[i] = v
      [] arb.kind = "fc.integer.map" ->
           /\ IsFiniteNumber(v)
           /\ v % arb.factor = 0
           /\ arb.min <= v \div arb.factor
           /\ v \div arb.factor <= arb.max
      [] arb.kind = "fc.double" -> arb.min <= v /\ v <= arb.max
      [] arb.kind \in {"fc.bigInt", "fc.date"} ->
           /\ IsFiniteNumber(v)
           /\ arb.hasMin => arb.min <= v
           /\ arb.hasMax => v <= arb.max
      [] arb.kind = "fc.oneof" -> \E i \in 1..Len(arb.of) : CanProduce(arb.of[i], v)
      [] arb.kind = "filter" -> CanProduce(arb.of[1], v) /\ safeParse(arb.schema, v)

----------------------------------------------------------------------------
(* The number specification: a number schema with a pipeline of up to      *)
(* MaxPipeLen actions is built by inputOf and the generator is sampled.    *)

\* a pipeline's first item is the schema v.pipe() was given
RootItem == [kind |-> "schema", type |-> "number", requirement |-> 0, list |-> <<>>]

\* the first item of v.pipe(v.string(), ...), v.pipe(v.bigint(), ...), ...
RootOf(type) == [kind |-> "schema", type |-> type, requirement |-> 0, list |-> <<>>]

Validation(type, requirement) ==
    [kind |-> "validation", type |-> type, requirement |-> requirement, list |-> <<>>]

\* 2.5, 4 and 10
Requirements == {Num(2) + Half, Num(4), Num(10)}

Factors == {Num(2), Num(3)}

ValuesOf(list) ==
    [kind |-> "validation", type |-> "values", requirement |-> 0, list |-> list]

NumberActions ==
    {Validation(type, r) : type \in {"min_value", "max_value", "gt_value", "lt_value", "value"},
                           r \in Requirements}
    \cup {Validation("multiple_of", f) : f \in Factors}
    \cup {Validation(type, 0) : type \in {"integer", "finite", "safe_integer"}}
    \cup {ValuesOf(<<Num(5), Num(15)>>), ValuesOf(<<Num(5), Infinity>>),
          Validation("check", Num(7)),
          [kind |-> "transformation", type |-> "readonly", requirement |-> 0, list |-> <<>>]}

Pipelines ==
    UNION {[1..n -> NumberActions] : n \in 0..MaxPipeLen}

\* pipelines of the README and of the tests
ExamplePipelines ==
    { <<Validation("multiple_of", Num(10)), Validation("min_value", Num(67)),
        Validation("max_value", Num(99))>>,
      <<ValuesOf(<<Num(10), Num(20), Num(30)>>)>>,
      <<Validation("gt_value", Num(50))>>,
      <<Validation("min_value", Num(100)), Validation("max_value", Num(50))>>,
      <<Validation("multiple_of", Num(6)), Validation("multiple_of", Num(10)),
        Validation("min_value", Num(0)), Validation("max_value", Num(100))>> }

Values == (-ValueWindow..ValueWindow) \cup {Infinity, -Infinity}

InitNumber ==
    /\ builders = << [overrides |-> EmptyRegistry, history |-> <<>>] >>
    /\ built = NoCall
    /\ \E actions \in Pipelines \cup ExamplePipelines : pipe = <<RootItem>> \o actions
    /\ sample = NotDrawn
    /\ total = 0
    /\ successful = 0
    /\ outcome = [kind |-> "none"]
    /\ NotDispatching /\ NoGuards
    /\ guardPath = <<>>

\* fc.sample / fc.assert draws a value from the generator inputOf returned
Sample(v) ==
    /\ built.op = "inputOf"
    /\ ~IsThrow(built.result)
    /\ CanProduce(built.result, v)
    /\ sample' = [drawn |-> TRUE, value |-> v]
    /\ UNCHANGED <<builders, built, pipe, total, successful, outcome, guardPath,
                 pending, dispatches, monitors, evaluated>>

NextNumber ==
    \/ InputOf(1, NumberUnderTest)
    \/ \E v \in Values : Sample(v)

SpecNumber == InitNumber /\ [][NextNumber]_vars

----------------------------------------------------------------------------
(* valibot's parse of a string schema, and the strings a string generator  *)
(* can produce.                                                            *)

Chars == {"a", "b", "c", " "}

\* String.prototype.trim
RECURSIVE TrimStart(_)
TrimStart(s) == IF s # <<>> /\ Head(s) = " " THEN TrimStart(Tail(s)) ELSE s

RECURSIVE TrimEnd(_)
TrimEnd(s) ==
    IF s # <<>> /\ s[Len(s)] = " " THEN TrimEnd(SubSeq(s, 1, Len(s) - 1)) ELSE s

Trim(s) == TrimEnd(TrimStart(s))

StartsWith(s, x) == Len(x) <= Len(s) /\ SubSeq(s, 1, Len(x)) = x

EndsWith(s, x) == Len(x) <= Len(s) /\ SubSeq(s, Len(s) - Len(x) + 1, Len(s)) = x

Includes(s, x) ==
    \E i \in 1..(Len(s) - Len(x) + 1) : SubSeq(s, i, i + Len(x) - 1) = x

\* the functions the string strategy pushes on `mappings`
ApplyMapping(m, s) ==
    CASE m.type = "starts_with" -> m.list[1] \o s
      [] m.type = "ends_with" -> s \o m.list[1]
      [] m.type = "includes" -> IF Includes(s, m.list[1]) THEN s ELSE s \o m.list[1]
      [] m.type = "trim" -> Trim(s)

\* one validation of a string pipeline on the value
StringActionAccepts(p, s) ==
    CASE p.type = "min_length" -> Len(s) >= p.requirement
      [] p.type = "max_length" -> Len(s) <= p.requirement
      [] p.type = "length" -> Len(s) = p.requirement
      [] p.type = "non_empty" -> Len(s) > 0
      [] p.type = "starts_with" -> StartsWith(s, p.list[1])
      [] p.type = "ends_with" -> EndsWith(s, p.list[1])
      [] p.type = "includes" -> Includes(s, p.list[1])
      [] p.type = "value" -> s = p.list[1]
      [] p.type = "values" -> \E i \in 1..Len(p.list) : p.list[i] = s

\* v.safeParse on a string schema: the items run in order, a transformation
\* replaces the value, a validation adds an issue; the parse succeeds when
\* there is no issue and its output is the last value
RECURSIVE ParseString(_, _)
ParseString(pipes, s) ==
    IF pipes = <<>> THEN [success |-> TRUE, output |-> s]
    ELSE LET p == Head(pipes)
         IN CASE p.kind = "schema" -> ParseString(Tail(pipes), s)
              [] p.kind = "transformation" -> ParseString(Tail(pipes), Trim(s))
              [] OTHER ->
                   IF StringActionAccepts(p, s) THEN ParseString(Tail(pipes), s)
                   ELSE [success |-> FALSE, output |-> s]

\* the strings fc.string draws, up to MaxStrLen characters
BaseStrings == UNION {[1..n -> Chars] : n \in 0..MaxStrLen}

\* the strings a string generator can produce
RECURSIVE Produced(_)
Produced(arb) ==
    CASE arb.kind = "fc.string" ->
           IF "minLength" \in DOMAIN arb
           THEN {s \in BaseStrings : arb.minLength <= Len(s) /\ Len(s) <= arb.maxLength}
           ELSE BaseStrings
      [] arb.kind = "map" -> {ApplyMapping(arb.mapping, s) : s \in Produced(arb.of[1])}
      [] arb.kind = "filter" ->
           {s \in Produced(arb.of[1]) : ParseString(arb.schema.pipe, s).success}
      [] arb.kind = "parsed" ->
           {ParseString(arb.schema.pipe, s).output :
               s \in {x \in Produced(arb.of[1]) : ParseString(arb.schema.pipe, x).success}}
      [] arb.kind \in {"fc.constant", "fc.constantFrom"} ->
           {arb.values[i] : i \in 1..Len(arb.values)}

----------------------------------------------------------------------------
(* The string specification: a string schema with a pipeline of up to      *)
(* MaxPipeLen actions is built by inputOf or outputOf and the generator    *)
(* is sampled.                                                             *)

StringUnderTest == UnderTest("string")

Lengths == {1, 2}

\* a validation whose requirement is a string, or a list of strings
Textual(type, list) ==
    [kind |-> "validation", type |-> type, requirement |-> 0, list |-> list]

TrimItem == [kind |-> "transformation", type |-> "trim", requirement |-> 0, list |-> <<>>]

StringActions ==
    {Validation(type, n) : type \in {"min_length", "max_length"}, n \in Lengths}
    \cup {Validation("length", 1), Validation("non_empty", 0), TrimItem}
    \cup {Textual(type, << <<"a", "b">> >>) : type \in {"starts_with", "ends_with", "includes"}}
    \cup {Textual("value", << <<"a">> >>),
          Textual("values", << <<"a">>, <<"b">>, <<"c">> >>)}

StringPipelines ==
    UNION {[1..n -> StringActions] : n \in 0..MaxPipeLen}

InitString ==
    /\ builders = << [overrides |-> EmptyRegistry, history |-> <<>>] >>
    /\ built = NoCall
    /\ \E actions \in StringPipelines : pipe = <<RootOf("string")>> \o actions
    /\ sample = NotDrawn
    /\ total = 0
    /\ successful = 0
    /\ outcome = [kind |-> "none"]
    /\ NotDispatching /\ NoGuards
    /\ guardPath = <<>>

\* fc.sample draws a string from the generator inputOf or outputOf returned
SampleString(v) ==
    /\ built.op \in {"inputOf", "outputOf"}
    /\ ~IsThrow(built.result)
    /\ sample' = [drawn |-> TRUE, value |-> v]
    /\ UNCHANGED <<builders, built, pipe, total, successful, outcome, guardPath,
                 pending, dispatches, monitors, evaluated>>

NextString ==
    \/ InputOf(1, StringUnderTest)
    \/ OutputOf(1, StringUnderTest)
    \/ \E v \in (IF built.op \in {"inputOf", "outputOf"} /\ ~IsThrow(built.result)
                  THEN Produced(built.result) ELSE {}) : SampleString(v)

SpecString == InitString /\ [][NextString]_vars

----------------------------------------------------------------------------
(* The bigint and the date specification: a bigint (date) schema with a    *)
(* pipeline of up to MaxPipeLen actions is built by inputOf and the        *)
(* generator is sampled.  Bigints and instants are integers.               *)

BigIntUnderTest == UnderTest("bigint")

DateUnderTest == UnderTest("date")

RangeRequirements == {4, 10}

RangeActions ==
    {Validation(type, r) : type \in {"min_value", "max_value", "gt_value", "lt_value", "value"},
                           r \in RangeRequirements}
    \cup {ValuesOf(<<5, 15>>), Validation("check", 7)}

RangePipelines ==
    UNION {[1..n -> RangeActions] : n \in 0..MaxPipeLen}

InitRange(type) ==
    /\ builders = << [overrides |-> EmptyRegistry, history |-> <<>>] >>
    /\ built = NoCall
    /\ \E actions \in RangePipelines : pipe = <<RootOf(type)>> \o actions
    /\ sample = NotDrawn
    /\ total = 0
    /\ successful = 0
    /\ outcome = [kind |-> "none"]
    /\ NotDispatching /\ NoGuards
    /\ guardPath = <<>>

InitBigInt == InitRange("bigint")

NextBigInt ==
    \/ InputOf(1, BigIntUnderTest)
    \/ \E v \in Values : Sample(v)

SpecBigInt == InitBigInt /\ [][NextBigInt]_vars

InitDate == InitRange("date")

NextDate ==
    \/ InputOf(1, DateUnderTest)
    \/ \E v \in Values : Sample(v)

SpecDate == InitDate /\ [][NextDate]_vars

----------------------------------------------------------------------------
(* The tree specification: one of the string, number, bigint, date, array  *)
(* and set schemas of the table carries a pipeline, and inputOf or         *)
(* outputOf is called on any schema of the table, so the schema with the   *)
(* pipeline is built at the root and inside every kind of container.       *)

PipedTypes == {"string", "number", "bigint", "date", "array", "set"}

\* for each strategy: a constraint it narrows with, one it returns early on (or
\* a second narrowing one), one it does not recognize, and a transformation
TreeActions(type) ==
    CASE type = "string" ->
           {Validation("min_length", 1), Validation("uuid", 0),
            Textual("values", << <<"a">>, <<"b">> >>), TrimItem}
      [] type = "number" ->
           {Validation("min_value", Num(4)), Validation("value", Num(4)),
            Validation("check", Num(7)),
            [kind |-> "transformation", type |-> "readonly", requirement |-> 0, list |-> <<>>]}
      [] type \in {"bigint", "date"} ->
           {Validation("min_value", 4), Validation("value", 4), Validation("check", 7),
            [kind |-> "transformation", type |-> "readonly", requirement |-> 0, list |-> <<>>]}
      [] type = "array" ->
           {Validation("min_length", 1), Validation("min_length", 11),
            Validation("size", 2), Validation("length", 2),
            [kind |-> "transformation", type |-> "readonly", requirement |-> 0, list |-> <<>>]}
      [] type = "set" ->
           {Validation("min_size", 1), Validation("min_size", 11),
            Validation("size", 2), Validation("check", 7),
            [kind |-> "transformation", type |-> "readonly", requirement |-> 0, list |-> <<>>]}

TreePipelines(type) ==
    UNION {[1..n -> TreeActions(type)] : n \in 0..MaxPipeLen}

InitTree ==
    /\ builders = << [overrides |-> EmptyRegistry, history |-> <<>>] >>
    /\ built = NoCall
    /\ \E type \in PipedTypes : \E actions \in TreePipelines(type) :
           pipe = <<RootOf(type)>> \o actions
    /\ sample = NotDrawn
    /\ total = 0
    /\ successful = 0
    /\ outcome = [kind |-> "none"]
    /\ NotDispatching /\ NoGuards
    /\ guardPath = <<>>

NextTree ==
    \/ \E s \in SchemaIds : InputOf(1, s)
    \/ \E s \in SchemaIds : OutputOf(1, s)

SpecTree == InitTree /\ [][NextTree]_vars

----------------------------------------------------------------------------
(* The dispatch specification: inputWithPath followed one entry at a time. *)
(* `pending` is the call stack: one frame per inputWithPath invocation     *)
(* that has not returned, innermost first, with the schemas the frame has  *)
(* still to recurse into.  The registry may hold functions: findOverride   *)
(* calls a function-valued entry with the builder (`override(this)`), and  *)
(* the function asks that builder for a generator.                         *)

\* how deep the call stack of one inputOf call is followed
MaxDepth == 6

\* (vfc) => vfc.inputOf(s)
Delegate(s) == [kind |-> "function", delegate |-> s]

\* the schemas a behaviour registers factories for, and the factories
FactoryTargets == {1, 2}

Factories == {Delegate(1), Delegate(2), Delegate(9)}

\* the schemas inputWithPath goes on to after looking up `s`: the schema a
\* function-valued override delegates to, nothing for a generator-valued
\* override, and the sub-schemas the strategy of `s` recurses into
Callees(overrides, s) ==
    LET entry == findOverride(overrides, s)
    IN IF Truthy(entry)
       THEN IF entry.kind = "function" THEN <<entry.delegate>> ELSE <<>>
       ELSE [i \in 1..Len(Schema(s).sub) |-> Schema(s).sub[i][2]]

\* the frame of inputWithPath(s, path)
Frame(overrides, s) == [schema |-> s, todo |-> Callees(overrides, s)]

\* inputWithPath raises on a schema without override and without strategy
Raises(overrides, s) ==
    ~Truthy(findOverride(overrides, s)) /\ ~isSupportedSchemaType(Schema(s))

\* override(schema, factory) on a builder that is not building
OverrideWith(b, s, a) ==
    /\ pending = <<>>
    /\ Override(b, s, a)

\* inputWithPath(s, ...) is entered on the builder `built.builder`
Enter(s, rest) ==
    LET overrides == builders[built.builder].overrides
    IN IF Raises(overrides, s)
       THEN /\ pending' = <<>>
            /\ built' = [built EXCEPT !.result = unsupportedSchemaError(Schema(s).type)]
       ELSE /\ pending' = <<Frame(overrides, s)>> \o rest
            /\ UNCHANGED built

\* inputOf(s) is called on builder b
Call(b, s) ==
    /\ pending = <<>>
    /\ built' = [op |-> "inputWithPath", builder |-> b, schema |-> s,
                 arg |-> Undefined, result |-> Undefined]
    /\ dispatches' = 1
    /\ LET overrides == builders[b].overrides
       IN pending' = IF Raises(overrides, s) THEN <<>> ELSE <<Frame(overrides, s)>>
    /\ UNCHANGED <<builders, pipe, sample, total, successful, outcome, guardPath,
                   monitors, evaluated>>

\* the innermost invocation recurses into its next schema
Recurse ==
    /\ pending # <<>>
    /\ Head(pending).todo # <<>>
    /\ Len(pending) < MaxDepth
    /\ dispatches' = dispatches + 1
    /\ Enter(Head(Head(pending).todo),
             <<[Head(pending) EXCEPT !.todo = Tail(@)]>> \o Tail(pending))
    /\ UNCHANGED <<builders, pipe, sample, total, successful, outcome, guardPath,
                   monitors, evaluated>>

\* the innermost invocation returns its generator
Return ==
    /\ pending # <<>>
    /\ Head(pending).todo = <<>>
    /\ pending' = Tail(pending)
    /\ UNCHANGED <<builders, built, pipe, sample, total, successful, outcome,
                   guardPath, dispatches, monitors, evaluated>>

NextDispatch ==
    \/ \E b \in 1..Len(builders), s \in FactoryTargets, a \in Factories :
          OverrideWith(b, s, a)
    \/ \E s \in SchemaIds : Call(Len(builders), s)
    \/ Recurse
    \/ Return

SpecDispatch == Init /\ [][NextDispatch]_vars

----------------------------------------------------------------------------
(* The guard specification: a number schema with a custom check is built,  *)
(* at the root or as the field of an object, so the strategy wraps its     *)
(* generator with filterBySchema; the filter then evaluates the guard on   *)
(* one candidate after the other.                                          *)

\* v.pipe(v.number(), v.check((x) => x % 7 === 0))
CheckedPipe == <<RootItem, Validation("check", Num(7))>>

\* the filters inside a generator term
RECURSIVE FiltersOf(_)
FiltersOf(arb) ==
    IF arb.kind = "filter" THEN {arb}
    ELSE IF "of" \in DOMAIN arb
         THEN UNION {FiltersOf(arb.of[i]) : i \in 1..Len(arb.of)}
         ELSE {}

InitGuard ==
    /\ builders = << [overrides |-> EmptyRegistry, history |-> <<>>] >>
    /\ pipe = CheckedPipe
    /\ \E s \in {NumberUnderTest, 9} :
          /\ built = [op |-> "inputOf", builder |-> 1, schema |-> s, arg |-> Undefined,
                      result |-> inputOf(EmptyRegistry, s)]
          /\ \E f \in FiltersOf(inputOf(EmptyRegistry, s)) : guardPath = f.path
    /\ sample = NotDrawn
    /\ total = 0
    /\ successful = 0
    /\ outcome = [kind |-> "none"]
    /\ NotDispatching /\ NoGuards

\* how many evaluations of one guard a behaviour makes
MaxEvals == 1100

\* the filter evaluates the guard on a candidate whose validation gives isSuccess
Evaluate(isSuccess) ==
    /\ total < MaxEvals
    /\ LET call == guardPredicate(MIN_SUCCESS_RATE, guardPath, total, successful, isSuccess)
       IN /\ total' = call.total
          /\ successful' = call.successful
          /\ outcome' = call.outcome
    /\ UNCHANGED <<builders, built, pipe, sample, guardPath,
                 pending, dispatches, monitors, evaluated>>

NextGuard == \E isSuccess \in BOOLEAN : Evaluate(isSuccess)

SpecGuard == InitGuard /\ [][NextGuard]_vars

(* The low-yield specification: the validator accepts fewer than 1% of the *)
(* candidates, in every prefix of the candidate stream; sampling goes on   *)
(* until an error escapes.                                                 *)
EvaluateLowYield(isSuccess) ==
    /\ outcome.kind # "throw"
    /\ isSuccess => (successful + 1) * 100 < total + 1
    /\ Evaluate(isSuccess)

NextLowYield == \E isSuccess \in BOOLEAN : EvaluateLowYield(isSuccess)

SpecLowYield == InitGuard /\ [][NextLowYield]_vars /\ WF_vars(NextLowYield)

----------------------------------------------------------------------------
(* The sibling specification: one generator tree with two guards, either   *)
(* the filters of two tuple positions or the filter of an object field and *)
(* the guard of outputOf.  The sampler evaluates the guards in any order.  *)

\* the paths of the guards inside a generator term, in construction order:
\* one guardPredicate call per filterBySchema and per outputOf filter
RECURSIVE GuardsOf(_)
RECURSIVE GuardsOfAll(_)
GuardsOfAll(arbs) ==
    IF arbs = <<>> THEN <<>> ELSE GuardsOf(Head(arbs)) \o GuardsOfAll(Tail(arbs))

GuardsOf(arb) ==
    (IF arb.kind \in {"filter", "parsed"} THEN <<arb.path>> ELSE <<>>)
    \o (IF "of" \in DOMAIN arb THEN GuardsOfAll(arb.of) ELSE <<>>)

\* counters that every guard of the tree shares
closureShared(g) == 1

\* the closure guard g counts in: `successful` and `total` are locals of the
\* guardPredicate call that made the guard
closureOf(g) == g

\* how many evaluations a behaviour follows on every guard but one
MaxOther == 2

InitSiblings ==
    /\ builders = << [overrides |-> EmptyRegistry, history |-> <<>>] >>
    /\ pipe = CheckedPipe
    /\ \/ built = [op |-> "inputOf", builder |-> 1, schema |-> 23, arg |-> Undefined,
                    result |-> inputOf(EmptyRegistry, 23)]
       \/ built = [op |-> "outputOf", builder |-> 1, schema |-> 9, arg |-> Undefined,
                    result |-> outputOf(EmptyRegistry, 9)]
    /\ sample = NotDrawn
    /\ total = 0
    /\ successful = 0
    /\ outcome = [kind |-> "none"]
    /\ guardPath = <<>>
    /\ NotDispatching
    /\ monitors = [g \in 1..Len(GuardsOf(built.result)) |->
                      [total |-> 0, successful |-> 0, outcome |-> [kind |-> "none"]]]
    /\ evaluated = [g \in 1..Len(GuardsOf(built.result)) |-> [count |-> 0, passed |-> 0]]

\* the sampler evaluates guard g on a candidate whose validation gives isSuccess
EvaluateGuard(g, isSuccess) ==
    /\ evaluated[g].count < MaxEvals
    /\ evaluated[g].count >= MaxOther =>
          /\ ~isSuccess
          /\ \A h \in DOMAIN evaluated : h # g => evaluated[h].count <= MaxOther
    /\ LET c == closureOf(g)
           call == guardPredicate(MIN_SUCCESS_RATE, GuardsOf(built.result)[g],
                                  monitors[c].total, monitors[c].successful, isSuccess)
       IN monitors' = [monitors EXCEPT ![c] = [total |-> call.total,
                                                successful |-> call.successful,
                                                outcome |-> call.outcome]]
    /\ evaluated' = [evaluated EXCEPT ![g] =
                        [count |-> @.count + 1,
                         passed |-> IF isSuccess THEN @.passed + 1 ELSE @.passed]]
    /\ UNCHANGED <<builders, built, pipe, sample, total, successful, outcome,
                   guardPath, pending, dispatches>>

NextSiblings ==
    \E g \in DOMAIN monitors, isSuccess \in BOOLEAN : EvaluateGuard(g, isSuccess)

SpecSiblings == InitSiblings /\ [][NextSiblings]_vars

----------------------------------------------------------------------------
(* Properties of the dispatcher and the override registry *)

\* the registry of the builder the last call was made on
LastRegistry == builders[built.builder].overrides

\* `sub` occurs in `msg` as a contiguous run of tokens
Contains(msg, sub) ==
    \E i \in 1..(Len(msg) - Len(sub) + 1) : SubSeq(msg, i, i + Len(sub) - 1) = sub

\* dispatching s meets, below no override, a schema without a strategy
RECURSIVE MeetsUnsupported(_, _)
MeetsUnsupported(o, s) ==
    /\ ~Truthy(o[s])
    /\ \/ ~isSupportedSchemaType(Schema(s))
       \/ \E i \in 1..Len(Schema(s).sub) : MeetsUnsupported(o, Schema(s).sub[i][2])

\* in the generator r built for s, every schema holding an override is
\* represented by exactly its override, and r is an error only if a schema
\* without strategy is met outside every override
RECURSIVE OverridesRespected(_, _, _)
OverridesRespected(o, s, r) ==
    IF Truthy(o[s]) THEN r = o[s]
    ELSE IF IsThrow(r) THEN MeetsUnsupported(o, s)
    ELSE \A i \in 1..Len(Schema(s).sub) :
             OverridesRespected(o, Schema(s).sub[i][2], r.of[i])

(* C2: when the builder holds an override for S, every dispatch on S, at    *)
(* the root or nested at any depth, returns exactly the override; neither  *)
(* S's type tag (even an unsupported one) nor its strategy has an effect.  *)
C2_OverridePrecedence ==
    built.op = "inputOf" => OverridesRespected(LastRegistry, built.schema, built.result)

\* an override on the unsupported schema nested two objects deep was used
C2_Witness ==
    /\ built.op = "inputOf"
    /\ built.schema = 7
    /\ Truthy(LastRegistry[5])
    /\ built.result.kind = "fc.record"
    /\ built.result.of[1].of[1] = LastRegistry[5]

(* C3: override never mutates its receiver: in every step every builder    *)
(* that exists keeps its registry, and its inputOf resolves every schema   *)
(* as before.                                                              *)
C3_OverrideKeepsReceiver ==
    [][\A b \in 1..Len(builders) :
          /\ builders'[b].overrides = builders[b].overrides
          /\ (built'.op = "override" /\ built'.builder = b) =>
                \A s \in SchemaIds :
                    inputOf(builders'[b].overrides, s) = inputOf(builders[b].overrides, s)]_vars

\* two override calls were made on the base builder, which is still empty
C3_Witness ==
    /\ Len(builders) >= 3
    /\ Len(builders[2].history) = 1
    /\ Len(builders[3].history) = 1
    /\ builders[2].overrides # builders[3].overrides
    /\ builders[1].overrides = EmptyRegistry

\* the registry that a chain of override calls, made from vfc(), leads to
RECURSIVE Replay(_)
Replay(history) ==
    IF history = <<>> THEN EmptyRegistry
    ELSE LET last == history[Len(history)]
         IN [Replay(SubSeq(history, 1, Len(history) - 1)) EXCEPT ![last[1]] = last[2]]

(* C4: the builder returned by B.override(S, a) holds B's registry with S  *)
(* mapped to a; every builder holds exactly the entries of its own chain   *)
(* of override calls, so an entry registered on one builder is never       *)
(* visible through a builder derived otherwise.                            *)
C4_RegistryOfOverride ==
    /\ \A n \in 1..Len(builders) : builders[n].overrides = Replay(builders[n].history)
    /\ built.op = "override" =>
          builders[built.result.id].overrides =
              [LastRegistry EXCEPT ![built.schema] = built.arg]

\* a builder whose chain registered S twice, with different generators
C4_Witness ==
    \E n \in 1..Len(builders) :
        /\ Len(builders[n].history) = 2
        /\ builders[n].history[1][1] = builders[n].history[2][1]
        /\ builders[n].history[1][2] # builders[n].history[2][2]
        /\ builders[n].overrides[builders[n].history[1][1]] = builders[n].history[2][2]

\* another schema object has the structure of s
HasTwin(s) == \E k \in SchemaIds : k # s /\ Schema(k) = Schema(s)

C6_AllStringsOverridden ==
    (/\ built.op = "inputOf"
     /\ Schema(built.schema).type = "object"
     /\ ~IsThrow(built.result)
     /\ ~Truthy(LastRegistry[built.schema])
     /\ Truthy(LastRegistry[1])
     /\ \A k \in SchemaIds \ {1} : ~Truthy(LastRegistry[k]))
    => \A i \in 1..Len(Schema(built.schema).sub) :
           Schema(Schema(built.schema).sub[i][2]) = Schema(1)
               => built.result.of[i] = LastRegistry[1]

\* the path at which dispatching s from `path` first meets a schema without strategy
RECURSIVE FirstUnsupportedPath(_, _, _)
FirstUnsupportedPath(o, s, path) ==
    IF ~isSupportedSchemaType(Schema(s)) THEN path
    ELSE LET i == CHOOSE i \in 1..Len(Schema(s).sub) :
                      /\ MeetsUnsupported(o, Schema(s).sub[i][2])
                      /\ \A j \in 1..(i - 1) : ~MeetsUnsupported(o, Schema(s).sub[j][2])
         IN FirstUnsupportedPath(o, Schema(s).sub[i][2], SubPath(Schema(s), path, i))

\* how a message renders a path: '.' for the root
RenderedPath(path) == IF path = <<>> THEN <<".">> ELSE path

(* C7: an unsupported schema makes inputOf fail with a                     *)
(* VFCUnsupportedSchemaError whose message contains the type name and the  *)
(* diagnostic path at which the schema was met.                            *)
C7_UnsupportedNamesTypeAndPath ==
    (built.op = "inputOf" /\ MeetsUnsupported(LastRegistry, built.schema)) =>
        /\ IsThrow(built.result)
        /\ built.result.class = "VFCUnsupportedSchemaError"
        /\ Contains(built.result.message, <<"custom_unsupported">>)
        /\ Contains(built.result.message,
                    RenderedPath(FirstUnsupportedPath(LastRegistry, built.schema, <<>>)))

----------------------------------------------------------------------------
(* Properties of the number strategy *)

\* some value passes the validator
Satisfiable(schema) == \E v \in Values : safeParse(schema, v)

(* C1: validity: every value the generator inputOf returned can produce    *)
(* passes the validator, for every combination and order of constraints    *)
(* (stated here for the schemas that some value satisfies).                *)
C1_Validity ==
    (sample.drawn /\ Satisfiable(Schema(built.schema)))
        => safeParse(Schema(built.schema), sample.value)

----------------------------------------------------------------------------
(* Properties of the guard *)

(* C8: warm-up: during its first 1000 evaluations the guard never raises,  *)
(* whatever the predicate gave; it returns the predicate's result.         *)
C8_WarmUpNeverRaises ==
    (total >= 1 /\ total <= 1000) =>
        /\ outcome.kind = "return"
        /\ outcome.value = outcome.isSuccess

\* 1000 evaluations were made and every one of them failed
C8_Witness == total = 1000 /\ successful = 0 /\ outcome.kind = "return"

(* C9: threshold: an evaluation after the warm-up (total > 1000) raises    *)
(* VFCGenerationError, naming the path ('.' for the empty one) and         *)
(* recommending an override, if the cumulative rate successful/total,      *)
(* this evaluation included, is below 1/100, and does not raise otherwise. *)
C9_ThresholdAfterWarmUp ==
    total > 1000 =>
        IF successful * 100 < total
        THEN /\ outcome.kind = "throw"
             /\ outcome.class = "VFCGenerationError"
             /\ Contains(outcome.message,
                         <<"'">> \o RenderedPath(guardPath) \o <<"'">>)
             /\ Contains(outcome.message, <<" Please provide an override for the schema at path ">>)
        ELSE outcome.kind = "return"

\* the guard of a nested field raised after the warm-up, having seen successes
C9_Witness ==
    /\ total > 1001
    /\ successful = 10
    /\ guardPath = <<".", "age">>
    /\ outcome.kind = "throw"

(* C10: with a validator that accepts fewer than 1% of the candidates,     *)
(* sampling ends in VFCGenerationError; the filter lets no value through   *)
(* that failed validation; the error is raised on the 1001st evaluation.   *)
C10_LowYieldEndsInError ==
    /\ <>(outcome.kind = "throw" /\ outcome.class = "VFCGenerationError")
    /\ [](outcome.kind = "return" /\ outcome.value => outcome.isSuccess)
    /\ [](successful = 0 => (outcome.kind = "throw" <=> total = 1001))

\* the predicate never succeeded and the 1001st evaluation raised
C10_Witness == total = 1001 /\ successful = 0 /\ outcome.kind = "throw"

----------------------------------------------------------------------------
(* Properties of the number strategy's branches *)

\* the locals of buildNumberArbitrary after the loop, for the pipeline chosen
ResolvedNumber == NumberFold(NumberSeed, Validations(pipe))

\* inputOf was called on the number schema with the pipeline
NumberBuilt == built.op = "inputOf" /\ built.schema = NumberUnderTest /\ pipe # <<>>

\* the generator was just returned and nothing has been drawn from it yet
NumberJustBuilt == NumberBuilt /\ ~sample.drawn

MultipleOfExample ==
    <<RootItem, Validation("multiple_of", Num(10)), Validation("min_value", Num(67)),
      Validation("max_value", Num(99))>>

(* C11: multiple-of range law: with a resolved factor f > 0 and resolved    *)
(* bounds [min, max] the producible values are exactly the multiples of f  *)
(* inside [min, max]; for multipleOf(10), minValue(67), maxValue(99) they  *)
(* are exactly 70, 80 and 90.                                              *)
C11_MultipleOfRange ==
    (NumberJustBuilt /\ built.result.kind = "fc.integer.map") =>
        /\ ResolvedNumber.multipleOf > 0
        /\ \A v \in Values :
               CanProduce(built.result, v) <=>
                   /\ IsFiniteNumber(v)
                   /\ \E k \in -ValueWindow..ValueWindow : v = k * ResolvedNumber.multipleOf
                   /\ ResolvedNumber.minValue <= v
                   /\ v <= ResolvedNumber.maxValue
        /\ pipe = MultipleOfExample =>
               {v \in Num(-120)..Num(120) : CanProduce(built.result, v)}
                   = {Num(70), Num(80), Num(90)}

\* the generator of the example was built: k is drawn from 7..9
C11_Witness ==
    /\ NumberBuilt
    /\ pipe = MultipleOfExample
    /\ built.result.kind = "fc.integer.map"
    /\ built.result.min = 7
    /\ built.result.max = 9

\* the pipeline holds nothing but range, integer and multiple-of constraints
OnlyRangeConstraints ==
    \A i \in 2..Len(pipe) :
        pipe[i].type \in {"min_value", "max_value", "gt_value", "lt_value",
                          "integer", "multiple_of"}

(* C12: strict inequality: with gt_value(r) every produced value is        *)
(* strictly greater than r and with lt_value(r) strictly less than r,      *)
(* whatever min_value, max_value, integer or multiple_of constraints       *)
(* precede or follow it.                                                   *)
C12_StrictInequality ==
    (sample.drawn /\ NumberBuilt /\ OnlyRangeConstraints) =>
        \A i \in 2..Len(pipe) :
            /\ pipe[i].type = "gt_value" => sample.value > pipe[i].requirement
            /\ pipe[i].type = "lt_value" => sample.value < pipe[i].requirement

(* C13: infinity law: a schema with max_value(M) for a finite M never      *)
(* produces +Infinity and one with min_value(m) for a finite m never       *)
(* produces -Infinity (stated for the schemas that some value satisfies).  *)
C13_InfinityWithinBounds ==
    (sample.drawn /\ NumberBuilt /\ Satisfiable(Schema(built.schema))) =>
        \A i \in 2..Len(pipe) :
            /\ pipe[i].type = "max_value" => sample.value # Infinity
            /\ pipe[i].type = "min_value" => sample.value # -Infinity

\* the constants of the first value / values constraint of a pipeline
RECURSIVE FirstDiscrete(_)
FirstDiscrete(pipes) ==
    IF pipes = <<>> THEN <<>>
    ELSE IF Head(pipes).type = "value" THEN <<Head(pipes).requirement>>
    ELSE IF Head(pipes).type = "values" THEN Head(pipes).list
    ELSE FirstDiscrete(Tail(pipes))

HasDiscrete(pipes) ==
    \E i \in 1..Len(pipes) : pipes[i].type \in {"value", "values"}

ValuesExample == <<RootItem, ValuesOf(<<Num(10), Num(20), Num(30)>>)>>

C18_OnlyVfcErrors ==
    (built.op \in {"inputOf", "outputOf"} /\ IsThrow(built.result)) =>
        built.result.class \in {"VFCUnsupportedSchemaError", "VFCGenerationError"}

----------------------------------------------------------------------------
(* Properties of the bigint and the date strategy *)

\* the pipeline holds nothing but the four range constraints
OnlyBounds ==
    \A i \in 2..Len(pipe) :
        pipe[i].type \in {"min_value", "max_value", "gt_value", "lt_value"}

\* every strict bound of the pipeline holds of the value drawn
StrictBoundsHold ==
    \A i \in 2..Len(pipe) :
        /\ pipe[i].type = "gt_value" => sample.value > pipe[i].requirement
        /\ pipe[i].type = "lt_value" => sample.value < pipe[i].requirement

(* C19: strict inequality for bigint: with gt_value(r) every produced      *)
(* value is strictly greater than r and with lt_value(r) strictly less,    *)
(* for every order of gt_value / lt_value and min_value / max_value in     *)
(* the pipeline.                                                           *)
C19_BigIntStrict ==
    (sample.drawn /\ built.schema = BigIntUnderTest /\ OnlyBounds) => StrictBoundsHold

(* C20: strict inequality for date: with gt_value(d) every produced        *)
(* instant is strictly later than d and with lt_value(d) strictly          *)
(* earlier; d itself is never produced.                                    *)
C20_DateStrict ==
    (sample.drawn /\ built.schema = DateUnderTest /\ OnlyBounds) =>
        \A i \in 2..Len(pipe) :
            LET d == pipe[i].requirement
            IN /\ pipe[i].type = "gt_value" => (sample.value # d /\ sample.value > d)
               /\ pipe[i].type = "lt_value" => (sample.value # d /\ sample.value < d)

----------------------------------------------------------------------------
(* Properties of the string strategy and of outputOf *)

\* inputOf was called on the string schema with the pipeline
StringBuilt == built.op = "inputOf" /\ built.schema = StringUnderTest /\ pipe # <<>>

\* the locals of buildStringArbitrary after the loop, for the pipeline chosen
ResolvedString == StringFold(StringSeed, Validations(pipe))

\* the strings of the first value / values constraint of a string pipeline
RECURSIVE FirstDiscreteStrings(_)
FirstDiscreteStrings(pipes) ==
    IF pipes = <<>> THEN <<>>
    ELSE IF Head(pipes).type \in {"value", "values"} THEN Head(pipes).list
    ELSE FirstDiscreteStrings(Tail(pipes))

(* C15: for a string schema a value(c) or values(S) constraint             *)
(* short-circuits the strategy to a constant / fixed-choice generator over *)
(* exactly c or S, without the fallback filter.                            *)
C15_StringDiscreteShortCircuit ==
    (StringBuilt /\ HasDiscrete(pipe) /\ ~IsThrow(built.result)) =>
        /\ built.result.kind \in {"fc.constant", "fc.constantFrom"}
        /\ built.result.values = FirstDiscreteStrings(pipe)

(* C16: length law: every string produced for a string schema has a        *)
(* length within the resolved [minLength, maxLength] (2 * minLength + 10   *)
(* when no max_length is declared), also when starts_with, ends_with,      *)
(* includes or non_empty constraints are in the pipeline.                  *)
C16_StringLength ==
    (sample.drawn /\ StringBuilt) =>
        /\ ResolvedString.minLength <= Len(sample.value)
        /\ Len(sample.value) <= StringMaxLength(ResolvedString)

\* the pipeline holds nothing but length constraints and trim
OnlyLengthsAndTrim ==
    \A i \in 2..Len(pipe) :
        pipe[i].type \in {"min_length", "max_length", "length", "non_empty", "trim"}

TrimExample == <<RootOf("string"), TrimItem, Validation("min_length", 1)>>

(* C17: every value outputOf(schema) can produce is the output of a        *)
(* successful parse of the schema applied to some value of                 *)
(* inputOf(schema); for v.pipe(v.string(), v.trim(), v.minLength(1)) every *)
(* produced value is a trimmed, non-empty string.                          *)
C17_OutputIsParsed ==
    (/\ sample.drawn
     /\ built.op = "outputOf"
     /\ built.schema = StringUnderTest
     /\ OnlyLengthsAndTrim) =>
        /\ \E input \in Produced(inputOf(builders[built.builder].overrides, built.schema)) :
               /\ ParseString(pipe, input).success
               /\ ParseString(pipe, input).output = sample.value
        /\ pipe = TrimExample =>
               (Trim(sample.value) = sample.value /\ Len(sample.value) >= 1)

----------------------------------------------------------------------------
(* Properties of the bounds fold *)

\* the orders in which the items of p can be written
Reorderings(p) ==
    {[i \in 1..Len(p) |-> p[f[i]]] :
        f \in {g \in [1..Len(p) -> 1..Len(p)] :
                  \A i, j \in 1..Len(p) : g[i] = g[j] => i = j}}

\* the generator the strategy of a number, bigint or date schema returns for
\* the pipeline `pipes`
RangeArbitrary(pipes) ==
    LET schema == [SchemaTable[UnderTest(pipes[1].type)]
                       EXCEPT !.hasPipe = TRUE, !.pipe = pipes]
    IN CASE schema.type = "number" -> buildNumberArbitrary(schema, <<>>)
         [] schema.type = "bigint" -> buildBigIntArbitrary(schema, <<>>)
         [] schema.type = "date" -> buildDateArbitrary(schema, <<>>)

(* C21: monotonic narrowing is order-independent: for a number, bigint or  *)
(* date schema the resolved sampling bounds are the same for every order   *)
(* of the pipeline's min_value, max_value, gt_value and lt_value           *)
(* constraints.                                                            *)
C21_OrderIndependentBounds ==
    (built.op = "inputOf" /\ ~sample.drawn /\ OnlyBounds
        /\ pipe[1].type \in {"number", "bigint", "date"}) =>
        \A q \in Reorderings(Tail(pipe)) :
            RangeArbitrary(<<pipe[1]>> \o q) = built.result

----------------------------------------------------------------------------
(* Properties of the recursion over a schema tree *)

\* the constraint tags each strategy narrows its sampling parameters with
RecognizedTags(type) ==
    CASE type = "string" ->
           {"min_length", "max_length", "length", "starts_with", "ends_with",
            "includes", "non_empty", "trim"}
      [] type = "number" ->
           {"min_value", "max_value", "integer", "finite", "multiple_of",
            "gt_value", "lt_value", "safe_integer"}
      [] type \in {"bigint", "date"} -> {"min_value", "max_value", "gt_value", "lt_value"}
      [] type = "array" -> {"min_length", "max_length", "size"}
      [] type = "set" -> {"min_size", "max_size", "size"}

\* the constraint tags on which each strategy returns a generator at once
ShortCircuitTags(type) ==
    CASE type = "string" -> {"uuid", "email", "url"}
      [] type \in {"number", "bigint", "date"} -> {"value", "values"}
      [] OTHER -> {}

\* the tags of the validations of a pipeline
ValidationTags(pipes) ==
    {pipes[i].type : i \in {j \in 1..Len(pipes) : pipes[j].kind = "validation"}}

\* the claim's condition for the fallback filter
MustBeFiltered(schema) ==
    /\ ValidationTags(schema.pipe) \ (RecognizedTags(schema.type)
                                        \cup ShortCircuitTags(schema.type)) # {}
    /\ ValidationTags(schema.pipe) \cap ShortCircuitTags(schema.type) = {}

\* the path of sub-schema i, as the claim words it
ClaimedSubPath(schema, path, i) ==
    CASE schema.type = "object" -> path \o <<".", schema.sub[i][1]>>
      [] schema.type = "array" -> path \o <<"[*]">>
      [] schema.type = "tuple" -> path \o <<"[", ToString(i - 1), "]">>
      [] schema.type = "map" -> path \o <<".", IF i = 1 THEN "(key)" ELSE "(value)">>
      [] schema.type = "set" -> path \o <<".", "(value)">>
      [] schema.type \in {"union", "optional", "nullable", "nullish"} -> path

\* the generator r built for schema s at `path`, and every generator inside
\* it, is filtered exactly when the claim says so
RECURSIVE RoutingHolds(_, _, _)
RoutingHolds(s, path, r) ==
    LET schema == Schema(s)
        inner == IF r.kind = "filter" THEN r.of[1] ELSE r
    IN /\ (schema.type \in PipedTypes /\ schema.hasPipe) =>
              IF MustBeFiltered(schema)
              THEN r.kind = "filter" /\ r.schema = schema /\ r.path = path
              ELSE r.kind # "filter"
       /\ (schema.type \in PipedTypes /\ ~schema.hasPipe) => r.kind # "filter"
       /\ ("of" \in DOMAIN inner /\ schema.sub # <<>>) =>
              \A i \in 1..Len(schema.sub) :
                  RoutingHolds(schema.sub[i][2], ClaimedSubPath(schema, path, i),
                               inner.of[i])

RECURSIVE ClaimedFilterPaths(_, _)
ClaimedFilterPaths(s, path) ==
    LET schema == Schema(s)
    IN (IF schema.type \in PipedTypes /\ schema.hasPipe /\ MustBeFiltered(schema)
        THEN {path} ELSE {})
       \cup UNION {ClaimedFilterPaths(schema.sub[i][2], ClaimedSubPath(schema, path, i)) :
                      i \in 1..Len(schema.sub)}

\* the paths of the filters inside a generator
RECURSIVE FilterPaths(_)
FilterPaths(arb) ==
    (IF arb.kind = "filter" THEN {arb.path} ELSE {})
    \cup (IF "of" \in DOMAIN arb
          THEN UNION {FilterPaths(arb.of[i]) : i \in 1..Len(arb.of)}
          ELSE {})

(* C23: diagnostic path construction: a sub-schema is dispatched with the  *)
(* parent's path extended by .<field> for an object field, [*] for the     *)
(* array item, [<index>] for a tuple position, .(key) and .(value) for a   *)
(* map, .(value) for a set member, and unchanged for union options and     *)
(* optional, nullable and nullish wrappers; the root path is empty.        *)
C23_PathConstruction ==
    (built.op = "inputOf" /\ ~IsThrow(built.result)) =>
        FilterPaths(built.result) = ClaimedFilterPaths(built.schema, <<>>)

\* a filtered number was built as the value of a map inside a nullable wrapper
C23_Witness ==
    /\ built.op = "inputOf"
    /\ built.schema = 22
    /\ pipe = <<RootItem, Validation("check", Num(7))>>
    /\ FilterPaths(built.result) = {<<".", "(value)">>}

OnlyMinimumLength ==
    /\ built.op = "inputOf"
    /\ pipe[1].type \in {"array", "set"}
    /\ built.schema = UnderTest(pipe[1].type)
    /\ Len(pipe) > 1
    /\ \A i \in 2..Len(pipe) :
          pipe[i].type = (IF pipe[1].type = "array" THEN "min_length" ELSE "min_size")

(* C25: collection bounds stay consistent: for an array whose pipeline     *)
(* declares only min_length(m), or a set declaring only min_size(m), the   *)
(* resolved bounds satisfy minLength <= maxLength and no collection has    *)
(* fewer than m elements, for m > 10 as well.                              *)
C25_CollectionBoundsConsistent ==
    OnlyMinimumLength =>
        /\ built.result.minLength <= built.result.maxLength
        /\ \A i \in 2..Len(pipe) : built.result.minLength >= pipe[i].requirement

\* an invocation of inputWithPath is nested in an invocation for the same
\* schema on the same builder: the registry and the schema are what they were
\* at the outer entry, so the inner invocation repeats the outer one
Reentered ==
    \E i, j \in 1..Len(pending) : i < j /\ pending[i].schema = pending[j].schema

(* C26: generator construction terminates: inputOf returns or raises after *)
(* finitely many dispatch steps, for every schema tree and every registry, *)
(* also when a function-valued override for a schema delegates to the      *)
(* inputOf of the builder that holds it for that same schema: no dispatch *)
(* is ever nested in a dispatch of the same schema.                        *)
C26_ConstructionTerminates ==
    built.op = "inputWithPath" => ~Reentered

(* C27: guard counters are private per guard: every guard starts with      *)
(* total = 0 and successful = 0, its counters count its own evaluations    *)
(* only, in any interleaving with the evaluations of the other guards of   *)
(* the tree, and it raises on its own counters only.                       *)
C27_CountersPrivate ==
    \A g \in DOMAIN monitors :
        /\ monitors[g].total = evaluated[g].count
        /\ monitors[g].successful = evaluated[g].passed
        /\ monitors[g].outcome.kind = "throw" =>
              /\ evaluated[g].count > MIN_RUNS
              /\ evaluated[g].passed * 100 < evaluated[g].count

\* one guard raised on its 1001st evaluation while the other, evaluated
\* twice in between, accepted a value
C27_Witness ==
    \E g, h \in DOMAIN monitors :
        /\ g # h
        /\ monitors[g].outcome.kind = "throw"
        /\ evaluated[g].count = MIN_RUNS + 1
        /\ evaluated[h].count = 2
        /\ monitors[h].outcome.kind = "return"
        /\ monitors[h].successful = 1

(* C28, as stated: the guard raises VFCGenerationError only on an          *)
(* evaluation whose value failed the predicate; an evaluation whose value  *)
(* satisfies the schema always returns true, whatever the counters held.   *)
C28_RaisesOnlyOnFailure ==
    (outcome.kind # "none" /\ outcome.isSuccess) =>
        outcome.kind = "return" /\ outcome.value = TRUE

(* C28, amended: an evaluation whose value satisfies the schema returns    *)
(* true unless, counting that evaluation, more than 1000 evaluations were  *)
(* made and fewer than 1% of them passed; then it raises                   *)
(* VFCGenerationError although the value passed.                           *)
C28_PassingReturnsUnlessLowRate ==
    (outcome.kind # "none" /\ outcome.isSuccess) =>
        IF total > MIN_RUNS /\ successful * 100 < total
        THEN outcome.kind = "throw" /\ outcome.class = "VFCGenerationError"
        ELSE outcome.kind = "return" /\ outcome.value = TRUE

\* the first value to pass, on the 1001st evaluation, raised
C28_Witness ==
    /\ total = MIN_RUNS + 1
    /\ successful = 1
    /\ outcome.kind = "throw"
    /\ outcome.isSuccess

(* C29: for a number schema that carries a pipeline, even an empty one,    *)
(* and no value / values constraint, every producible value lies within    *)
(* [MIN_SAFE_INTEGER, MAX_SAFE_INTEGER]: the bounds are seeded at the      *)
(* safe-integer limits and only narrowed, so neither infinity is produced, *)
(* whether or not a finite constraint is present.                          *)
C29_SafeRangeNoInfinity ==
    (NumberBuilt /\ ~HasDiscrete(pipe) /\ ~IsThrow(built.result)) =>
        /\ ~CanProduce(built.result, Infinity)
        /\ ~CanProduce(built.result, -Infinity)
        /\ ~CanProduce(built.result, Num(MAX_SAFE_INTEGER) + One)
        /\ ~CanProduce(built.result, Num(MIN_SAFE_INTEGER) - One)
        /\ sample.drawn =>
              /\ Num(MIN_SAFE_INTEGER) <= sample.value
              /\ sample.value <= Num(MAX_SAFE_INTEGER)

\* a value was drawn from the generator of v.pipe(v.number()), a pipeline
\* without validations
C29_Witness ==
    /\ NumberBuilt
    /\ pipe = <<RootItem>>
    /\ built.result.kind = "fc.double"
    /\ sample.drawn

\* the product of the multiple_of requirements of a pipeline
RECURSIVE ProductOfFactors(_)
ProductOfFactors(pipes) ==
    IF pipes = <<>> THEN One
    ELSE IF Head(pipes).kind = "validation" /\ Head(pipes).type = "multiple_of"
         THEN (Head(pipes).requirement * ProductOfFactors(Tail(pipes))) \div One
         ELSE ProductOfFactors(Tail(pipes))

HasMultipleOf(pipes) ==
    \E i \in 1..Len(pipes) : pipes[i].kind = "validation" /\ pipes[i].type = "multiple_of"

ProductExample ==
    <<RootItem, Validation("multiple_of", Num(6)), Validation("multiple_of", Num(10)),
      Validation("min_value", Num(0)), Validation("max_value", Num(100))>>

====
